---- MODULE Spec2Model ----
(***************************************************************************)
(* question_logger: a Slack bot that logs job-tagged questions asked in    *)
(* internal channels to a Google sheet ("QuestionsLog", columns A..O),     *)
(* links the client thread in which a question is reposted to the internal *)
(* thread it came from (RelayMemory, PENDING_INTERNAL), writes the         *)
(* client's reply back into the sheet and echoes it to the internal thread.*)
(*                                                                         *)
(* Modelled from src/app.py and src/google_utils.py.                       *)
(*                                                                         *)
(* Representation.  A message text is a sequence of one-character strings, *)
(* so that strip() and the regular expression work on characters; a sheet  *)
(* cell is a string, "" for an empty cell.  Str turns a text into the cell *)
(* string.  A sheet is the sequence of its rows, row 1 being the header    *)
(* row when there is one; a row is a sequence of NCols cells.  The sheet   *)
(* service is taken to store a written cell as the string written          *)
(* (the values this program writes are digits, tokens and texts).          *)
(*                                                                         *)
(* Scheduling.  Bolt runs every event's listener on its own worker thread, *)
(* so handlers interleave.  A handler is cut at its spreadsheet calls: one *)
(* step runs from the handler's entry (or the previous sheet call) through *)
(* the next sheet call, which the service executes atomically.             *)
(***************************************************************************)
EXTENDS Integers, Sequences, FiniteSets, TLC

VARIABLES
    phase,              \* "boot" while app.py is being imported, then "run"
    INTERNAL_CHANNEL_IDS, \* app.py:111-117, fixed at import
    CLIENT_CHANNEL_IDS, \* app.py:120-123, fixed at import
    PENDING_INTERNAL,   \* app.py:185  job -> <<internal_channel, internal_ts>>
    RELAY_MEM,          \* app.py:72   [map, order] of RelayMemory
    sheet,              \* the QuestionsLog tab: sequence of rows
    posts,              \* the chat.postMessage calls made, in order
    slots,              \* the handlers in flight: slot -> handler record
    clock,              \* time.time(), in seconds; the behaviours are short runs
                        \* in which it does not move
    budget,             \* events still to be delivered
    faults,             \* failures of external calls still allowed
    tagText,            \* input of the job-tag check (SpecTag)
    tagResult,          \* what JOB_TAG_RE.search returned for tagText
    saves,              \* the save_map calls made, in order (SpecRelay)
    jobRows,            \* the rows read from the job log (SpecJoblog)
    jobResult           \* what find_job_in_joblog returned for jobRows

vars == <<phase, INTERNAL_CHANNEL_IDS, CLIENT_CHANNEL_IDS, PENDING_INTERNAL,
          RELAY_MEM, sheet, posts, slots, clock, budget, faults,
          tagText, tagResult, saves, jobRows, jobResult>>

----------------------------------------------------------------------------
(* Bounds of the model *)

\* events delivered in one behaviour
MaxEvents == 3
\* handlers running at the same time
MaxInflight == 2
\* external calls (Slack, Sheets) that fail in one behaviour
MaxFaults == 1
\* chunks a text of SpecTag is built from
MaxChunks == 6
\* save_map calls and clock steps in one behaviour of SpecRelay
MaxRelayOps == 4

(* Program constants *)

\* RelayMemory.__init__(max_items=30)
max_items == 30
\* RelayMemory.__init__(ttl_seconds=72*3600)
ttl_seconds == 259200
\* rebuild_from_sheet_cache(max_rows=200)
max_rows == 200
\* \d{5} of JOB_TAG_RE
TagDigits == 5
\* columns A..O of the question log, 1-based
NCols == 15
ColA == 1
ColG == 7
ColK == 11
ColL == 12
ColM == 13
ColN == 14
ColO == 15

----------------------------------------------------------------------------
(* Texts *)

Digits == {"0", "1", "2", "3", "4", "5", "6", "7", "8", "9"}

RECURSIVE Str(_)
Str(s) == IF s = <<>> THEN "" ELSE Head(s) \o Str(Tail(s))

RECURSIVE LStrip(_)
LStrip(s) == IF s # <<>> /\ Head(s) = " " THEN LStrip(Tail(s)) ELSE s

RECURSIVE RStrip(_)
RStrip(s) ==
    IF s # <<>> /\ s[Len(s)] = " " THEN RStrip(SubSeq(s, 1, Len(s) - 1)) ELSE s

\* str.strip()
Strip(s) == RStrip(LStrip(s))

\* mutant: the '?' after the digits is not asked for
TagMatchAt_NoQuestionMark(s, i) ==
    /\ i + TagDigits <= Len(s)
    /\ s[i] = "#"
    /\ \A d \in 1..TagDigits : s[i + d] \in Digits

\* "#(\d{5})\?" tried at position i: '#', then five digits, then '?'
TagMatchAt(s, i) ==
    /\ i + TagDigits + 1 <= Len(s)
    /\ s[i] = "#"
    /\ \A d \in 1..TagDigits : s[i + d] \in Digits
    /\ s[i + TagDigits + 1] = "?"

\* JOB_TAG_RE.search(text): the start positions are tried left to right;
\* the result is group(1) of the first match, <<>> for None
RECURSIVE TagSearchFrom(_, _)
TagSearchFrom(s, i) ==
    IF i > Len(s) THEN <<>>
    ELSE IF TagMatchAt(s, i) THEN SubSeq(s, i + 1, i + TagDigits)
    ELSE TagSearchFrom(s, i + 1)

JobTagSearch(s) == TagSearchFrom(s, 1)

----------------------------------------------------------------------------
(* RelayMemory: client_ts -> (job, internal_channel, internal_ts,          *)
(* created_at), with the deque of keys in insertion order                  *)

NoMapping == <<>>

EmptyRelay == [map |-> <<>>, order |-> <<>>]

\* dict.pop(k, None)
DictPop(m, k) == [x \in DOMAIN m \ {k} |-> m[x]]

\* dict[k] = v
DictSet(m, k, v) == [x \in DOMAIN m \cup {k} |-> IF x = k THEN v ELSE m[x]]

\* the "TTL evict" loop of RelayMemory._evict
RECURSIVE TtlEvict(_, _)
TtlEvict(rm, now) ==
    IF rm.order = <<>> THEN rm
    ELSE LET k == Head(rm.order) IN
         IF k \notin DOMAIN rm.map
         THEN TtlEvict([rm EXCEPT !.order = Tail(rm.order)], now)
         ELSE IF now - rm.map[k].created_at > ttl_seconds
              THEN TtlEvict([map |-> DictPop(rm.map, k),
                             order |-> Tail(rm.order)], now)
              ELSE rm

\* mutant: the size loop counts the entries of the map, not of the queue
RECURSIVE SizeEvict_ByMapSize(_)
SizeEvict_ByMapSize(rm) ==
    IF Cardinality(DOMAIN rm.map) > max_items
    THEN SizeEvict_ByMapSize([map |-> DictPop(rm.map, Head(rm.order)),
                              order |-> Tail(rm.order)])
    ELSE rm

\* mutant: the size loop runs while the queue is at max_items or above
RECURSIVE SizeEvict_AtLimit(_)
SizeEvict_AtLimit(rm) ==
    IF Len(rm.order) >= max_items
    THEN SizeEvict_AtLimit([map |-> DictPop(rm.map, Head(rm.order)),
                            order |-> Tail(rm.order)])
    ELSE rm

\* the "Size evict" loop of RelayMemory._evict
RECURSIVE SizeEvict(_)
SizeEvict(rm) ==
    IF Len(rm.order) > max_items
    THEN SizeEvict([map |-> DictPop(rm.map, Head(rm.order)),
                    order |-> Tail(rm.order)])
    ELSE rm

Evict(rm, now) == SizeEvict(TtlEvict(rm, now))

\* RelayMemory.save_map, under the lock
SaveMap(rm, job, internal_channel, internal_ts, client_ts, now) ==
    Evict([map |-> DictSet(rm.map, client_ts,
                           [job |-> job,
                            internal_channel |-> internal_channel,
                            internal_ts |-> internal_ts,
                            created_at |-> now]),
           order |-> Append(rm.order, client_ts)], now)

\* RelayMemory.by_client_thread
ByClientThread(rm, client_ts) ==
    IF client_ts \in DOMAIN rm.map
    THEN <<rm.map[client_ts].job, rm.map[client_ts].internal_channel,
           rm.map[client_ts].internal_ts>>
    ELSE NoMapping

----------------------------------------------------------------------------
(* The spreadsheet service, as the program uses it *)

\* a written row, padded with empty cells to the width of the grid
PadRow(cells) == [c \in 1..NCols |-> IF c <= Len(cells) THEN cells[c] ELSE ""]

RECURSIVE TrimRow(_)
TrimRow(r) ==
    IF r # <<>> /\ r[Len(r)] = "" THEN TrimRow(SubSeq(r, 1, Len(r) - 1)) ELSE r

\* values().get(range="QuestionsLog!A:<ncols>"): the rows cut to the range,
\* each without its trailing empty cells
ReadRange(sh, ncols) == [i \in 1..Len(sh) |-> TrimRow(SubSeq(sh[i], 1, ncols))]

\* (row[i].strip() if len(row) > i else ""), i 0-based in the code
Cell(row, c) == IF Len(row) >= c THEN row[c] ELSE ""

\* values().append(..., insertDataOption="INSERT_ROWS"): one row after the
\* last row of the table
AppendToSheet(sh, cells) == Append(sh, PadRow(cells))

\* values().update(range="<startCol><n>:<endCol><n>", body={"values": [cells]}):
\* the cells are laid out from the range's first column on
UpdateRange(sh, n, startCol, cells) ==
    [sh EXCEPT ![n] = [c \in 1..NCols |->
        IF c >= startCol /\ c < startCol + Len(cells)
        THEN cells[c - startCol + 1] ELSE @[c]]]

\* mutant: the scan runs top-down and stops at the first unanswered row
ScanUnanswered_TopDown(values, job_num, n) ==
    LET hits == {i \in 2..n : Cell(values[i], ColA) = job_num
                              /\ Cell(values[i], ColG) = ""}
    IN  IF hits = {} THEN 0 ELSE CHOOSE i \in hits : \A j \in hits : i <= j

\* mutant: the scan takes the last unanswered row, whatever its job
ScanUnanswered_AnyJob(values, job_num, n) ==
    LET hits == {i \in 2..n : Cell(values[i], ColG) = ""}
    IN  IF hits = {} THEN 0 ELSE CHOOSE i \in hits : \A j \in hits : j <= i

\* mutant: the scan takes the last row of the job, answered or not
ScanUnanswered_AnyRow(values, job_num, n) ==
    LET hits == {i \in 2..n : Cell(values[i], ColA) = job_num}
    IN  IF hits = {} THEN 0 ELSE CHOOSE i \in hits : \A j \in hits : j <= i

\* the scan `for idx in range(len(values) - 1, 0, -1)`: bottom-up, the header
\* row skipped; the result is target_row_idx_1based, 0 for None
RECURSIVE ScanUnanswered(_, _, _)
ScanUnanswered(values, job_num, n) ==
    IF n < 2 THEN 0
    ELSE IF Cell(values[n], ColA) = job_num /\ Cell(values[n], ColG) = ""
         THEN n
         ELSE ScanUnanswered(values, job_num, n - 1)

FindUnanswered(values, job_num) == ScanUnanswered(values, job_num, Len(values))

----------------------------------------------------------------------------
(* The job log (tab "Active"), read-only reference data *)

JOBLOG == << <<"Job #", "Job Name", "Monday ID">>,
             <<"11111", "Alpha", "m1">> >>

\* idx.get(h): the 0-based column of header h, -1 for None
HeaderIdx(headers, h) ==
    IF \E i \in 1..Len(headers) : headers[i] = h
    THEN (CHOOSE i \in 1..Len(headers) :
              headers[i] = h /\ \A j \in (i + 1)..Len(headers) : headers[j] # h) - 1
    ELSE -1

\* a or b, on 0-based indexes: 0 and None are both falsy
PyOr(a, b) == IF a > 0 THEN a ELSE b

\* r[i].strip() if i is not None and i < len(r) else ""
RowGet(r, i) == IF i >= 0 /\ i < Len(r) THEN r[i + 1] ELSE ""

\* the loop `for r in rows[1:]` of find_job_in_joblog; n is the row tried
RECURSIVE JoblogScan(_, _, _, _, _, _)
JoblogScan(rows, n, job_num, job_idx, name_idx, monday_idx) ==
    IF n > Len(rows) THEN [found |-> FALSE, job_name |-> "", monday_item_id |-> ""]
    ELSE IF job_idx < 0 \/ job_idx >= Len(rows[n])
         THEN JoblogScan(rows, n + 1, job_num, job_idx, name_idx, monday_idx)
         ELSE IF RowGet(rows[n], job_idx) = job_num
              THEN [found |-> TRUE,
                    job_name |-> RowGet(rows[n], name_idx),
                    monday_item_id |-> RowGet(rows[n], monday_idx)]
              ELSE JoblogScan(rows, n + 1, job_num, job_idx, name_idx, monday_idx)

\* find_job_in_joblog(sheets_service, JOBLOG_SHEET_ID, JOBLOG_RANGE, job_num)
FindJobInJoblog(rows, job_num) ==
    IF rows = <<>> THEN [found |-> FALSE, job_name |-> "", monday_item_id |-> ""]
    ELSE JoblogScan(rows, 2, job_num,
                    HeaderIdx(rows[1], "Job #"),
                    HeaderIdx(rows[1], "Job Name"),
                    PyOr(HeaderIdx(rows[1], "Ewing Board Item ID"),
                         HeaderIdx(rows[1], "Monday ID")))

----------------------------------------------------------------------------
(* Channel roles *)

\* `channel in INTERNAL_CHANNEL_IDS` (app.py:303)
IsInternal(chan) == chan \in INTERNAL_CHANNEL_IDS

\* mutant: every channel that is not internal is a client channel
IsClientChannel_AnyNonInternal(chan) == chan \notin INTERNAL_CHANNEL_IDS

\* _is_client_channel(chan)
IsClientChannel(chan) ==
    IF chan \in INTERNAL_CHANNEL_IDS THEN FALSE
    ELSE IF CLIENT_CHANNEL_IDS # {} THEN chan \in CLIENT_CHANNEL_IDS
    ELSE TRUE

----------------------------------------------------------------------------
(* Start-up: the module body of app.py *)

\* the loop `for r in rows[start:]` of rebuild_from_sheet_cache, from row n
\* of values on.  bound says whether the global name PENDING_INTERNAL is
\* bound when the loop runs; assigning an item of an unbound name raises
\* NameError, which the `except Exception` of line 177 catches.
RECURSIVE RebuildRows(_, _, _, _, _, _)
RebuildRows(values, n, pend, rm, now, bound) ==
    IF n > Len(values) THEN [pending |-> pend, relay |-> rm]
    ELSE LET r == values[n]
             job == Cell(r, ColA)
             internal_ts == Cell(r, ColL)
             client_ts == Cell(r, ColM)
             internal_ch == Cell(r, ColN)
             setsPending == job # "" /\ internal_ts # "" /\ internal_ch # ""
             savesRelay == job # "" /\ client_ts # "" /\ internal_ts # ""
                               /\ internal_ch # ""
         IN  IF setsPending /\ ~bound THEN [pending |-> pend, relay |-> rm]
             ELSE RebuildRows(values, n + 1,
                     IF setsPending THEN DictSet(pend, job, <<internal_ch, internal_ts>>)
                                    ELSE pend,
                     IF savesRelay
                     THEN SaveMap(rm, job, internal_ch, internal_ts, client_ts, now)
                     ELSE rm,
                     now, bound)

\* max(0, len(rows) - max_rows), as the index in values of the first row read
RebuildStart(values) ==
    IF Len(values) - 1 > max_rows THEN Len(values) - max_rows + 1 ELSE 2

\* rebuild_from_sheet_cache(logger)
RebuildFromSheetCache(sh, pend, rm, now, readOk, bound) ==
    IF ~readOk \/ ReadRange(sh, NCols) = <<>> THEN [pending |-> pend, relay |-> rm]
    ELSE RebuildRows(ReadRange(sh, NCols), RebuildStart(ReadRange(sh, NCols)),
                     pend, rm, now, bound)

\* rebuild_from_sheet_cache is called on line 180, PENDING_INTERNAL is first
\* bound on line 185
PendingBoundAtRebuild == FALSE

Idle == [pc |-> "idle"]

\* the external calls of a step succeed or raise as oks says; every call that
\* raises is taken from the failures the behaviour may still see
NFailed(oks) == Cardinality({i \in 1..Len(oks) : ~oks[i]})
Fails(oks) == NFailed(oks) <= faults /\ faults' = faults - NFailed(oks)

\* the import of app.py: the rebuild (line 180), then PENDING_INTERNAL = {}
\* (line 185)
Startup ==
    /\ phase = "boot"
    /\ phase' = "run"
    /\ \E readOk \in BOOLEAN :
          /\ Fails(<<readOk>>)
          /\ RELAY_MEM' = RebuildFromSheetCache(sheet, <<>>, RELAY_MEM, clock, readOk,
                                                PendingBoundAtRebuild).relay
    /\ PENDING_INTERNAL' = <<>>
    /\ UNCHANGED <<INTERNAL_CHANNEL_IDS, CLIENT_CHANNEL_IDS, sheet, posts, slots,
                   clock, budget, tagText, tagResult, saves, jobRows, jobResult>>

----------------------------------------------------------------------------
(* Events *)

Channels == {"A", "B", "C"}
TS == {"t1", "t2"}
Users == {"U1"}

TextTag1 == <<"#", "1", "1", "1", "1", "1", "?">>
TextTag2 == <<" ", "#", "2", "2", "2", "2", "2", "?">>
TextPlain == <<"o", "k", " ">>
Texts == {TextTag1, TextTag2, TextPlain}

\* body["event"] of a message event
MessageEvents ==
    [channel : Channels, text : Texts, ts : TS, thread_ts : {""} \cup TS,
     subtype : {"", "message_changed"}, bot_id : {"", "B1"}, user : Users]

\* a body without an event
NoEvent == [channel |-> "", text |-> <<>>, ts |-> "", thread_ts |-> "",
            subtype |-> "", bot_id |-> "", user |-> "", empty |-> TRUE]

Events == MessageEvents \cup {NoEvent}

\* mutant: only a subtype makes the router drop the event
Dropped_BotsPass(ev) == ev = NoEvent \/ ev.subtype # ""

\* `not ev or ev.get("subtype") or ev.get("bot_id")` (app.py:293)
Dropped(ev) == ev = NoEvent \/ ev.subtype # "" \/ ev.bot_id # ""

\* (not thread_ts) or (thread_ts == ts)
IsRoot(ev) == ev.thread_ts = "" \/ ev.thread_ts = ev.ts

\* _get_user_name_safe: the profile's name, or the user id when users_info raises
ProfileName(user_id) == "Ann"
UserNameSafe(user_id, lookupOk) == IF lookupOk THEN ProfileName(user_id) ELSE user_id

\* datetime.now().strftime("%Y-%m-%d") and ("%H:%M:%S"): never empty
DateNow == "2024-01-02"
TimeNow == "10:00:00"

\* the text of the echo posted to the internal thread
EchoText(user_name, text) == "*Client reply* (" \o user_name \o ")\n" \o Str(text)

\* client.chat_postMessage(channel=..., thread_ts=..., text=...) of lines
\* 394-398; ok is whether the call returned or raised
PostEcho(log, internal_channel, internal_ts, user_name, text, ok) ==
    Append(log, [channel |-> internal_channel, thread_ts |-> internal_ts,
                 text |-> EchoText(user_name, text), ok |-> ok])

----------------------------------------------------------------------------
(* message_router *)

\* mutant: the append of the question row is outside any try block
Caught_AppendEscapes(site) == site # "append_to_sheet"

\* whether an exception raised by the external call at a call site of
\* message_router is caught by an enclosing `except Exception`: users_info
\* (lines 202-208), find_job_in_joblog (318-324), append_to_sheet (344-347),
\* the read and the update of _update_client_thread_info (261-288, and
\* 364-369), the read and the write of _update_sheet_response_for_job
\* (216-258), chat_postMessage (393-401)
Caught(site) ==
    site \in {"users_info", "find_job_in_joblog", "append_to_sheet",
              "client_info_get", "client_info_update",
              "response_get", "response_write", "chat_postMessage"}

\* a handler that an exception has left
Raised == [pc |-> "raised"]

\* some call of a step raises, as oks says, at a site where nothing catches it
Escapes(sites, oks) == \E i \in 1..Len(oks) : ~oks[i] /\ ~Caught(sites[i])

\* the handler's position after a step: next when every exception was caught
After(h, sites, oks, next) ==
    [slots EXCEPT ![h] = IF Escapes(sites, oks) THEN Raised ELSE next]

Frame == UNCHANGED <<phase, INTERNAL_CHANNEL_IDS, CLIENT_CHANNEL_IDS, clock,
                     tagText, tagResult, saves, jobRows, jobResult>>

\* mutant: the message timestamp lands in column M instead of column L
QuestionRow_TsInM(job_num, job_name, user_name, text, monday_item_id, ts, channel) ==
    <<job_num, job_name, DateNow, TimeNow, user_name, Str(text),
      "", "", "", "", monday_item_id, "", ts, channel, "">>

\* the row of lines 327-343
QuestionRow(job_num, job_name, user_name, text, monday_item_id, ts, channel) ==
    <<job_num, job_name, DateNow, TimeNow, user_name, Str(text),
      "", "", "", "", monday_item_id, ts, "", channel, "">>

\* the row of line 244
ResponseOnlyRow(job_num, resp_date, resp_time, resp_from, resp_body) ==
    <<job_num, "", "", "", "", "", resp_date, resp_time, resp_from, resp_body, "">>

\* lines 307-347: an internal question, through the append to the sheet
InternalQuestion(h, ev, text, job_num) ==
    \E lookupOk \in BOOLEAN, joblogOk \in BOOLEAN, appendOk \in BOOLEAN :
       LET joblog == IF joblogOk THEN FindJobInJoblog(JOBLOG, job_num)
                     ELSE [found |-> FALSE, job_name |-> "", monday_item_id |-> ""]
           row == QuestionRow(job_num,
                              IF joblog.found THEN joblog.job_name ELSE "",
                              UserNameSafe(ev.user, lookupOk), text,
                              IF joblog.found THEN joblog.monday_item_id ELSE "",
                              ev.ts, ev.channel)
       IN  /\ slots' = After(h, <<"users_info", "find_job_in_joblog", "append_to_sheet">>,
                             <<lookupOk, joblogOk, appendOk>>,
                             [pc |-> "cache", job_num |-> job_num,
                              channel |-> ev.channel, ts |-> ev.ts])
           /\ UNCHANGED <<PENDING_INTERNAL, RELAY_MEM, posts>>
           /\ Fails(<<lookupOk, joblogOk, appendOk>>)
           /\ sheet' = IF appendOk THEN AppendToSheet(sheet, row) ELSE sheet

\* mutant: a regurgitation consumes the pending entry it links
Regurgitation_Consumes(h, ev, job_num) ==
    IF job_num \notin DOMAIN PENDING_INTERNAL
    THEN UNCHANGED <<PENDING_INTERNAL, RELAY_MEM, sheet, posts, slots, faults>>
    ELSE /\ UNCHANGED <<sheet, posts, slots, faults>>
         /\ PENDING_INTERNAL' = DictPop(PENDING_INTERNAL, job_num)
         /\ RELAY_MEM' = SaveMap(RELAY_MEM, job_num, PENDING_INTERNAL[job_num][1],
                                 PENDING_INTERNAL[job_num][2], ev.ts, clock)

\* mutant: with no pending entry the root is linked to an empty thread
Regurgitation_SavesUnlinked(h, ev, job_num) ==
    /\ UNCHANGED <<PENDING_INTERNAL, sheet, posts, slots, faults>>
    /\ RELAY_MEM' = SaveMap(RELAY_MEM, job_num, "", "", ev.ts, clock)

\* lines 358-370: a regurgitation, through the read of
\* _update_client_thread_info
Regurgitation(h, ev, job_num) ==
    IF job_num \notin DOMAIN PENDING_INTERNAL
    THEN UNCHANGED <<PENDING_INTERNAL, RELAY_MEM, sheet, posts, slots, faults>>
    ELSE /\ UNCHANGED <<PENDING_INTERNAL, sheet, posts>>
         /\ RELAY_MEM' = SaveMap(RELAY_MEM, job_num, PENDING_INTERNAL[job_num][1],
                                 PENDING_INTERNAL[job_num][2], ev.ts, clock)
         /\ \E readOk \in BOOLEAN :
              LET values == ReadRange(sheet, NCols)
                  target == FindUnanswered(values, job_num)
              IN  /\ Fails(<<readOk>>)
                  /\ slots' = After(h, <<"client_info_get">>, <<readOk>>,
                                     IF readOk /\ values # <<>> /\ target # 0
                                     THEN [pc |-> "write_client", job_num |-> job_num,
                                           internal_channel |-> PENDING_INTERNAL[job_num][1],
                                           internal_ts |-> PENDING_INTERNAL[job_num][2],
                                           channel |-> ev.channel, ts |-> ev.ts,
                                           target |-> target]
                                     ELSE Idle)

\* lines 373-391: a client reply, through the read of
\* _update_sheet_response_for_job; when that read fails or returns nothing,
\* no write follows and the echo of lines 393-401 is posted at once
ClientReply(h, ev, text) ==
    LET mapping == ByClientThread(RELAY_MEM, ev.thread_ts) IN
    IF mapping = NoMapping
    THEN UNCHANGED <<PENDING_INTERNAL, RELAY_MEM, sheet, posts, slots, faults>>
    ELSE \E lookupOk \in BOOLEAN, readOk \in BOOLEAN, postOk \in BOOLEAN :
           LET values == ReadRange(sheet, ColK)
               user_name == UserNameSafe(ev.user, lookupOk)
           IN  /\ UNCHANGED <<PENDING_INTERNAL, RELAY_MEM, sheet>>
               /\ Fails(<<lookupOk, readOk, (readOk /\ values # <<>>) \/ postOk>>)
               /\ IF readOk /\ values # <<>>
                  THEN /\ slots' = After(h, <<"users_info">>, <<lookupOk>>,
                                         [pc |-> "write_resp",
                                          thread_ts |-> ev.thread_ts,
                                          job_num |-> mapping[1],
                                          internal_channel |-> mapping[2],
                                          internal_ts |-> mapping[3],
                                          user_name |-> user_name, text |-> text,
                                          target |-> FindUnanswered(values, mapping[1])])
                       /\ posts' = posts
                  ELSE /\ slots' = After(h, <<"users_info", "response_get",
                                              "chat_postMessage">>,
                                         <<lookupOk, readOk, postOk>>, Idle)
                       /\ posts' = PostEcho(posts, mapping[2], mapping[3],
                                            user_name, text, postOk)

\* what handling ev does up to the handler's first sheet write (lines 292-402)
Route(h, ev) ==
    IF Dropped(ev)
    THEN UNCHANGED <<PENDING_INTERNAL, RELAY_MEM, sheet, posts, slots, faults>>
    ELSE LET text == Strip(ev.text)
             m == JobTagSearch(text)
         IN  IF IsInternal(ev.channel)
             THEN IF m # <<>>
                  THEN InternalQuestion(h, ev, text, Str(m))
                  ELSE UNCHANGED <<PENDING_INTERNAL, RELAY_MEM, sheet, posts, slots,
                                   faults>>
             ELSE IF IsClientChannel(ev.channel)
                  THEN IF m # <<>> /\ IsRoot(ev)
                       THEN Regurgitation(h, ev, Str(m))
                       ELSE IF ev.thread_ts # ""
                            THEN ClientReply(h, ev, text)
                            ELSE UNCHANGED <<PENDING_INTERNAL, RELAY_MEM, sheet,
                                             posts, slots, faults>>
                  ELSE UNCHANGED <<PENDING_INTERNAL, RELAY_MEM, sheet, posts, slots,
                                   faults>>

\* the lowest free slot takes the next event
FreeSlot(h) == slots[h] = Idle /\ \A g \in 1..(h - 1) : slots[g] # Idle

\* message_router(body, client, logger) is entered with event ev
Handle(h, ev) ==
    /\ phase = "run"
    /\ budget > 0
    /\ FreeSlot(h)
    /\ budget' = budget - 1
    /\ Route(h, ev)
    /\ Frame

MessageRouter == \E h \in 1..MaxInflight, ev \in Events : Handle(h, ev)

\* line 349: PENDING_INTERNAL[job_num] = (channel, ts), and the handler returns
InternalCacheOf(h) ==
    /\ slots[h].pc = "cache"
    /\ PENDING_INTERNAL' = DictSet(PENDING_INTERNAL, slots[h].job_num,
                                   <<slots[h].channel, slots[h].ts>>)
    /\ slots' = [slots EXCEPT ![h] = Idle]
    /\ UNCHANGED <<RELAY_MEM, sheet, posts, budget, faults>>
    /\ Frame

InternalCache == \E h \in 1..MaxInflight : InternalCacheOf(h)

\* lines 280-286: the update of _update_client_thread_info, and the handler
\* returns
ClientInfoWriteOf(h) ==
    /\ slots[h].pc = "write_client"
    /\ \E writeOk \in BOOLEAN :
          /\ Fails(<<writeOk>>)
          /\ sheet' = IF writeOk
                      THEN UpdateRange(sheet, slots[h].target, ColM,
                                       <<slots[h].ts, slots[h].channel>>)
                      ELSE sheet
          /\ slots' = After(h, <<"client_info_update">>, <<writeOk>>, Idle)
    /\ UNCHANGED <<PENDING_INTERNAL, RELAY_MEM, posts, budget>>
    /\ Frame

ClientInfoWrite == \E h \in 1..MaxInflight : ClientInfoWriteOf(h)

\* mutant: a failed response write ends the handler before the echo
ResponseWriteOf_NoEchoAfterFailedWrite(h) ==
    /\ slots[h].pc = "write_resp"
    /\ \E writeOk \in BOOLEAN, postOk \in BOOLEAN :
          /\ Fails(<<writeOk, postOk>>)
          /\ sheet' = IF ~writeOk THEN sheet
                      ELSE IF slots[h].target = 0
                           THEN AppendToSheet(sheet,
                                   ResponseOnlyRow(slots[h].job_num, DateNow, TimeNow,
                                                   slots[h].user_name,
                                                   Str(slots[h].text)))
                           ELSE UpdateRange(sheet, slots[h].target, ColG,
                                   <<DateNow, TimeNow, slots[h].user_name,
                                     Str(slots[h].text)>>)
          /\ posts' = IF ~writeOk THEN posts
                      ELSE PostEcho(posts, slots[h].internal_channel,
                                    slots[h].internal_ts, slots[h].user_name,
                                    slots[h].text, postOk)
    /\ slots' = [slots EXCEPT ![h] = Idle]
    /\ UNCHANGED <<PENDING_INTERNAL, RELAY_MEM, budget>>
    /\ Frame

\* lines 237-255 and 393-401: the write of _update_sheet_response_for_job,
\* then the echo, and the handler returns
ResponseWriteOf(h) ==
    /\ slots[h].pc = "write_resp"
    /\ \E writeOk \in BOOLEAN, postOk \in BOOLEAN :
          /\ Fails(<<writeOk, postOk>>)
          /\ sheet' = IF ~writeOk THEN sheet
                      ELSE IF slots[h].target = 0
                           THEN AppendToSheet(sheet,
                                   ResponseOnlyRow(slots[h].job_num, DateNow, TimeNow,
                                                   slots[h].user_name,
                                                   Str(slots[h].text)))
                           ELSE UpdateRange(sheet, slots[h].target, ColG,
                                   <<DateNow, TimeNow, slots[h].user_name,
                                     Str(slots[h].text)>>)
          /\ posts' = PostEcho(posts, slots[h].internal_channel,
                               slots[h].internal_ts, slots[h].user_name,
                               slots[h].text, postOk)
          /\ slots' = After(h, <<"response_write", "chat_postMessage">>,
                             <<writeOk, postOk>>, Idle)
    /\ UNCHANGED <<PENDING_INTERNAL, RELAY_MEM, budget>>
    /\ Frame

ResponseWrite == \E h \in 1..MaxInflight : ResponseWriteOf(h)

----------------------------------------------------------------------------
(* The service *)

Header == <<"Job #", "Job name", "Request DATE", "Request TIME", "Requested by",
            "Request BODY", "Response DATE", "Response TIME", "Response FROM",
            "Response BODY", "Monday Item ID", "Internal TS", "Client Root TS",
            "Internal Channel ID", "Client Channel ID">>

\* a question of an earlier run, asked in channel A at t0 and reposted in
\* channel B at c0, not yet answered; M and N are as the update of lines
\* 280-286 left them
OldRow == <<"11111", "Alpha", "2024-01-01", "09:00:00", "Ann", "#11111?",
            "", "", "", "", "m1", "t0", "c0", "B", "">>

\* the QuestionsLog tab when the process starts: empty, the header only, or
\* the header and a row of an earlier run
InitSheets == {<<>>, <<Header>>, <<Header, OldRow>>}

\* (INTERNAL_CHANNEL_IDS, CLIENT_CHANNEL_IDS) as read from the environment;
\* INTERNAL_CHANNEL_IDS is never empty (lines 116-117)
Configs == {<<{"A"}, {"B"}>>}

Init ==
    /\ phase = "boot"
    /\ \E c \in Configs : INTERNAL_CHANNEL_IDS = c[1] /\ CLIENT_CHANNEL_IDS = c[2]
    /\ PENDING_INTERNAL = <<>>
    /\ RELAY_MEM = EmptyRelay
    /\ sheet \in InitSheets
    /\ posts = <<>>
    /\ slots = [h \in 1..MaxInflight |-> Idle]
    /\ clock = 0
    /\ budget = MaxEvents
    /\ faults = MaxFaults
    /\ tagText = <<>>
    /\ tagResult = [done |-> FALSE, job |-> <<>>]
    /\ saves = <<>>
    /\ jobRows = <<>>
    /\ jobResult = [done |-> FALSE, job_num |-> "", found |-> FALSE, monday_item_id |-> ""]

Next ==
    \/ Startup
    \/ MessageRouter
    \/ InternalCache
    \/ ClientInfoWrite
    \/ ResponseWrite

Spec == Init /\ [][Next]_vars

----------------------------------------------------------------------------
(* The service after a long run.  One question for job 11111 was asked in   *)
(* thread t1 of channel A and logged; it was then reposted max_items times  *)
(* in channel B, first at t2 and then at WarmFillers further timestamps.    *)
(* InitWarm is the state the handlers above leave behind after these        *)
(* max_items + 1 events: the relay cache is full, its oldest key is t2.     *)

WarmFillers == max_items - 1

\* the timestamp of the k-th further repost
FillerTs(k) == "f" \o ToString(k)

\* RELAY_MEM after these reposts: save_map was called once per repost, no
\* key twice, so order lists the max_items keys oldest first and nothing was
\* evicted
WarmRelay ==
    [map   |-> [k \in {"t2"} \cup {FillerTs(i) : i \in 1..WarmFillers} |->
                   [job |-> "11111", internal_channel |-> "A",
                    internal_ts |-> "t1", created_at |-> 0]],
     order |-> <<"t2">> \o [i \in 1..WarmFillers |-> FillerTs(i)]]

WarmSheet ==
    UpdateRange(
        AppendToSheet(<<Header>>,
                      QuestionRow("11111", "Alpha", "Ann", TextTag1, "m1", "t1", "A")),
        2, ColM, <<FillerTs(WarmFillers), "B">>)

InitWarm ==
    /\ phase = "run"
    /\ INTERNAL_CHANNEL_IDS = {"A"}
    /\ CLIENT_CHANNEL_IDS = {"B"}
    /\ PENDING_INTERNAL = DictSet(<<>>, "11111", <<"A", "t1">>)
    /\ RELAY_MEM = WarmRelay
    /\ sheet = WarmSheet
    /\ posts = <<>>
    /\ slots = [h \in 1..MaxInflight |-> Idle]
    /\ clock = 0
    /\ budget = MaxEvents
    /\ faults = MaxFaults
    /\ tagText = <<>>
    /\ tagResult = [done |-> FALSE, job |-> <<>>]
    /\ saves = <<>>
    /\ jobRows = <<>>
    /\ jobResult = [done |-> FALSE, job_num |-> "", found |-> FALSE, monday_item_id |-> ""]

NextWarm ==
    \/ MessageRouter
    \/ InternalCache
    \/ ClientInfoWrite
    \/ ResponseWrite

SpecWarm == InitWarm /\ [][NextWarm]_vars

----------------------------------------------------------------------------
(* The service with two questions open.  #11111? was asked in channel A at  *)
(* t1 and #22222? at t2; both were logged, then reposted in channel B at t1 *)
(* and at t2.  InitTwo is the state the handlers above leave behind after   *)
(* these four events, every call succeeding.                                *)

TwoPending ==
    DictSet(DictSet(<<>>, "11111", <<"A", "t1">>), "22222", <<"A", "t2">>)

TwoRelay ==
    SaveMap(SaveMap(EmptyRelay, "11111", "A", "t1", "t1", 0),
            "22222", "A", "t2", "t2", 0)

TwoSheet ==
    UpdateRange(
        UpdateRange(
            AppendToSheet(
                AppendToSheet(<<Header>>,
                    QuestionRow("11111", "Alpha", "Ann", Strip(TextTag1), "m1", "t1", "A")),
                QuestionRow("22222", "", "Ann", Strip(TextTag2), "", "t2", "A")),
            2, ColM, <<"t1", "B">>),
        3, ColM, <<"t2", "B">>)

InitTwo ==
    /\ phase = "run"
    /\ INTERNAL_CHANNEL_IDS = {"A"}
    /\ CLIENT_CHANNEL_IDS = {"B"}
    /\ PENDING_INTERNAL = TwoPending
    /\ RELAY_MEM = TwoRelay
    /\ sheet = TwoSheet
    /\ posts = <<>>
    /\ slots = [h \in 1..MaxInflight |-> Idle]
    /\ clock = 0
    /\ budget = MaxEvents
    /\ faults = MaxFaults
    /\ tagText = <<>>
    /\ tagResult = [done |-> FALSE, job |-> <<>>]
    /\ saves = <<>>
    /\ jobRows = <<>>
    /\ jobResult = [done |-> FALSE, job_num |-> "", found |-> FALSE, monday_item_id |-> ""]

SpecTwo == InitTwo /\ [][NextWarm]_vars

----------------------------------------------------------------------------
(* The configurations of the channel sets: a non-empty internal set, a      *)
(* client set that may be empty, and a channel that may be in both          *)

InitChan ==
    /\ phase = "boot"
    /\ INTERNAL_CHANNEL_IDS \in (SUBSET {"A", "B"}) \ {{}}
    /\ CLIENT_CHANNEL_IDS \in SUBSET {"B", "C"}
    /\ PENDING_INTERNAL = <<>>
    /\ RELAY_MEM = EmptyRelay
    /\ sheet = <<Header>>
    /\ posts = <<>>
    /\ slots = [h \in 1..MaxInflight |-> Idle]
    /\ clock = 0
    /\ budget = MaxEvents
    /\ faults = 0
    /\ tagText = <<>>
    /\ tagResult = [done |-> FALSE, job |-> <<>>]
    /\ saves = <<>>
    /\ jobRows = <<>>
    /\ jobResult = [done |-> FALSE, job_num |-> "", found |-> FALSE, monday_item_id |-> ""]

SpecChan == InitChan /\ [][Next]_vars

----------------------------------------------------------------------------
(* The job-tag check alone, over the texts built from at most MaxChunks     *)
(* chunks                                                                   *)

Chunks == { <<"#", "1", "1", "1", "1">>, <<"#", "2", "2", "2", "2">>,
            <<"1">>, <<"?">>, <<" ">> }

RECURSIVE Flatten(_)
Flatten(cs) == IF cs = <<>> THEN <<>> ELSE Head(cs) \o Flatten(Tail(cs))

TagTexts == {Flatten(cs) : cs \in UNION {[1..n -> Chunks] : n \in 0..MaxChunks}}

InitTag ==
    /\ phase = "boot"
    /\ INTERNAL_CHANNEL_IDS = {"A"}
    /\ CLIENT_CHANNEL_IDS = {}
    /\ PENDING_INTERNAL = <<>>
    /\ RELAY_MEM = EmptyRelay
    /\ sheet = <<>>
    /\ posts = <<>>
    /\ slots = [h \in 1..MaxInflight |-> Idle]
    /\ clock = 0
    /\ budget = 0
    /\ faults = 0
    /\ tagText \in TagTexts
    /\ tagResult = [done |-> FALSE, job |-> <<>>]
    /\ saves = <<>>
    /\ jobRows = <<>>
    /\ jobResult = [done |-> FALSE, job_num |-> "", found |-> FALSE, monday_item_id |-> ""]

\* lines 297 and 308: text = (ev.get("text") or "").strip();
\* m = JOB_TAG_RE.search(text)
TagCheck ==
    /\ ~tagResult.done
    /\ tagResult' = [done |-> TRUE, job |-> JobTagSearch(Strip(tagText))]
    /\ UNCHANGED <<phase, INTERNAL_CHANNEL_IDS, CLIENT_CHANNEL_IDS, PENDING_INTERNAL,
                   RELAY_MEM, sheet, posts, slots, clock, budget, faults,
                   tagText, saves, jobRows, jobResult>>

SpecTag == InitTag /\ [][TagCheck]_vars

----------------------------------------------------------------------------
(* RelayMemory alone: save_map calls and the passing of time, from the      *)
(* empty cache and from the cache after max_items saves of distinct keys    *)

\* the n-th distinct client timestamp saved
RelayKey(n) == "k" \o ToString(n)

\* the internal timestamp passed by the n-th save_map call
RelayPayload(n) == "s" \o ToString(n)

\* the first max_items calls, all at time 0, no key twice
FullSaves ==
    [n \in 1..max_items |->
        [key |-> RelayKey(n), internal_ts |-> RelayPayload(n), at |-> 0]]

\* RELAY_MEM after them: nothing was evicted, order lists the keys oldest
\* first
FullRelay ==
    [map   |-> [k \in {RelayKey(n) : n \in 1..max_items} |->
                   [job |-> "11111", internal_channel |-> "A",
                    internal_ts |->
                        RelayPayload(CHOOSE n \in 1..max_items : RelayKey(n) = k),
                    created_at |-> 0]],
     order |-> [n \in 1..max_items |-> RelayKey(n)]]

InitRelay ==
    /\ phase = "run"
    /\ INTERNAL_CHANNEL_IDS = {"A"}
    /\ CLIENT_CHANNEL_IDS = {"B"}
    /\ PENDING_INTERNAL = <<>>
    /\ \/ RELAY_MEM = EmptyRelay /\ saves = <<>>
       \/ RELAY_MEM = FullRelay /\ saves = FullSaves
    /\ sheet = <<>>
    /\ posts = <<>>
    /\ slots = [h \in 1..MaxInflight |-> Idle]
    /\ clock = 0
    /\ budget = MaxRelayOps
    /\ faults = 0
    /\ tagText = <<>>
    /\ tagResult = [done |-> FALSE, job |-> <<>>]
    /\ jobRows = <<>>
    /\ jobResult = [done |-> FALSE, job_num |-> "", found |-> FALSE, monday_item_id |-> ""]

RelayFrame ==
    UNCHANGED <<phase, INTERNAL_CHANNEL_IDS, CLIENT_CHANNEL_IDS, PENDING_INTERNAL,
                sheet, posts, slots, faults, tagText, tagResult, jobRows, jobResult>>

\* the keys saved so far
SavedKeys == {saves[i].key : i \in 1..Len(saves)}

\* RELAY_MEM.save_map(job, internal_channel, internal_ts, client_ts) is called
\* with client_ts = k
RelaySave(k) ==
    /\ budget > 0
    /\ budget' = budget - 1
    /\ RELAY_MEM' = SaveMap(RELAY_MEM, "11111", "A", RelayPayload(Len(saves) + 1),
                            k, clock)
    /\ saves' = Append(saves, [key |-> k,
                               internal_ts |-> RelayPayload(Len(saves) + 1),
                               at |-> clock])
    /\ clock' = clock
    /\ RelayFrame

\* a save of a key never saved before
SaveFresh == RelaySave(RelayKey(Cardinality(SavedKeys) + 1))

\* a save of a key saved before: the first ever saved, or the oldest or the
\* newest of the order queue
SaveAgain ==
    /\ saves # <<>>
    /\ \E k \in {saves[1].key}
               \cup (IF RELAY_MEM.order = <<>> THEN {}
                     ELSE {Head(RELAY_MEM.order),
                           RELAY_MEM.order[Len(RELAY_MEM.order)]}) :
          RelaySave(k)

\* time.time() moves on by a second, by the TTL, or by a second more than
\* the TTL
TickSteps == {1, ttl_seconds, ttl_seconds + 1}

RelayTick ==
    /\ budget > 0
    /\ budget' = budget - 1
    /\ \E d \in TickSteps : clock' = clock + d
    /\ UNCHANGED <<RELAY_MEM, saves>>
    /\ RelayFrame

NextRelay == SaveFresh \/ SaveAgain \/ RelayTick

SpecRelay == InitRelay /\ [][NextRelay]_vars

----------------------------------------------------------------------------
(* find_job_in_joblog alone, over job logs whose header row lists some of   *)
(* the column names in some order                                           *)

JoblogColumns == {"Job #", "Job Name", "Ewing Board Item ID", "Monday ID"}

\* the header rows: column names in any order, none twice, "Job #" among them
HeaderOrders ==
    {hs \in UNION {[1..n -> JoblogColumns] : n \in 1..Cardinality(JoblogColumns)} :
        /\ \A i, j \in 1..Len(hs) : hs[i] = hs[j] => i = j
        /\ \E i \in 1..Len(hs) : hs[i] = "Job #"}

\* the cell of the job's row in the column headed name
JoblogCell(job_num, name) ==
    IF name = "Job #" THEN job_num
    ELSE IF name = "Job Name" THEN (IF job_num = "11111" THEN "Alpha" ELSE "Beta")
    ELSE IF name = "Ewing Board Item ID" THEN (IF job_num = "11111" THEN "e1" ELSE "e2")
    ELSE (IF job_num = "11111" THEN "m1" ELSE "m2")

\* the job log with header row hs and a row for each of two jobs
JoblogWith(hs) ==
    <<hs, [i \in 1..Len(hs) |-> JoblogCell("11111", hs[i])],
          [i \in 1..Len(hs) |-> JoblogCell("22222", hs[i])]>>

\* the job numbers looked up; 33333 has no row
LookupJobs == {"11111", "22222", "33333"}

InitJoblog ==
    /\ phase = "run"
    /\ INTERNAL_CHANNEL_IDS = {"A"}
    /\ CLIENT_CHANNEL_IDS = {}
    /\ PENDING_INTERNAL = <<>>
    /\ RELAY_MEM = EmptyRelay
    /\ sheet = <<>>
    /\ posts = <<>>
    /\ slots = [h \in 1..MaxInflight |-> Idle]
    /\ clock = 0
    /\ budget = 0
    /\ faults = 0
    /\ tagText = <<>>
    /\ tagResult = [done |-> FALSE, job |-> <<>>]
    /\ saves = <<>>
    /\ jobRows \in {<<>>} \cup {JoblogWith(hs) : hs \in HeaderOrders}
    /\ jobResult = [done |-> FALSE, job_num |-> "", found |-> FALSE, monday_item_id |-> ""]

\* joblog = find_job_in_joblog(sheets_service, JOBLOG_SHEET_ID, JOBLOG_RANGE,
\* job_num) (app.py:319), the read returning jobRows
JoblogLookup ==
    /\ ~jobResult.done
    /\ \E job_num \in LookupJobs :
          jobResult' = [done |-> TRUE, job_num |-> job_num,
                        found |-> FindJobInJoblog(jobRows, job_num).found,
                        monday_item_id |->
                            FindJobInJoblog(jobRows, job_num).monday_item_id]
    /\ UNCHANGED <<phase, INTERNAL_CHANNEL_IDS, CLIENT_CHANNEL_IDS, PENDING_INTERNAL,
                   RELAY_MEM, sheet, posts, slots, clock, budget, faults, tagText,
                   tagResult, saves, jobRows>>

SpecJoblog == InitJoblog /\ [][JoblogLookup]_vars

----------------------------------------------------------------------------
(* Vocabulary of the properties *)

\* the job number the router extracts from ev
JobOf(ev) == Str(JobTagSearch(Strip(ev.text)))

\* the texts of Texts that carry a job tag
TaggedTexts == {TextTag1, TextTag2}

\* a message with no subtype and no bot flag, in an internal channel, with a
\* job tag
InternalQuestions ==
    [channel : INTERNAL_CHANNEL_IDS, text : TaggedTexts, ts : TS,
     thread_ts : {""} \cup TS, subtype : {""}, bot_id : {""}, user : Users]

\* row r is the question row of ev: A the job, L the timestamp, N the channel,
\* G-J, M and O empty
RowIsQuestionOf(r, ev) ==
    /\ r[ColA] = JobOf(ev)
    /\ r[ColL] = ev.ts
    /\ r[ColN] = ev.channel
    /\ \A c \in ColG..(ColG + 3) : r[c] = ""
    /\ r[ColM] = ""
    /\ r[ColO] = ""

\* this step adds exactly one row, the question row of ev, and changes no
\* other row
AppendsQuestionRow(ev) ==
    /\ Len(sheet') = Len(sheet) + 1
    /\ SubSeq(sheet', 1, Len(sheet)) = sheet
    /\ RowIsQuestionOf(sheet'[Len(sheet')], ev)

\* the handler in slot h carries on with the caching of ev's thread
CachesNext(h, ev) ==
    slots'[h] = [pc |-> "cache", job_num |-> JobOf(ev), channel |-> ev.channel,
                 ts |-> ev.ts]

\* the handler of an internal question returns in this step
InternalReturns(h) == slots[h].pc = "cache" /\ slots'[h] = Idle

\* when it returns, the pending entry of its job is its own thread
PendingIsOwn(h) ==
    /\ slots[h].job_num \in DOMAIN PENDING_INTERNAL'
    /\ PENDING_INTERNAL'[slots[h].job_num] = <<slots[h].channel, slots[h].ts>>

----------------------------------------------------------------------------
(* C1 *)

\* C1, as stated: handling a job-tagged message of an internal channel (no
\* subtype, no bot flag) appends exactly one question row (A the job, L the
\* timestamp, N the channel, G-J, M and O empty), and when the handler returns
\* the pending entry of the job is (channel, timestamp).
C1_AppendsOneRow ==
    [][/\ \A h \in 1..MaxInflight, ev \in InternalQuestions :
            Handle(h, ev)
                => (AppendsQuestionRow(ev) /\ CachesNext(h, ev))
       /\ \A h \in 1..MaxInflight : InternalReturns(h) => PendingIsOwn(h)]_vars

\* C1, amended: the row is appended when no external call of the step raises;
\* when the append raises the sheet is left as it was; in both cases the
\* pending entry of the job is (channel, timestamp) when the handler returns.
C1_AppendsOneRowUnlessAppendFails ==
    [][/\ \A h \in 1..MaxInflight, ev \in InternalQuestions :
            Handle(h, ev)
                => /\ AppendsQuestionRow(ev) \/ (sheet' = sheet /\ faults' < faults)
                   /\ faults' = faults => AppendsQuestionRow(ev)
                   /\ CachesNext(h, ev)
       /\ \A h \in 1..MaxInflight : InternalReturns(h) => PendingIsOwn(h)]_vars

\* an internal question was logged and cached: its row is in the sheet and
\* the pending entry of its job names its thread
C1_Witness ==
    \E j \in DOMAIN PENDING_INTERNAL : \E i \in 1..Len(sheet) :
        /\ sheet[i][ColA] = j
        /\ sheet[i][ColN] = PENDING_INTERNAL[j][1]
        /\ sheet[i][ColL] = PENDING_INTERNAL[j][2]
        /\ sheet[i][ColG] = ""
        /\ sheet[i][ColM] = ""

----------------------------------------------------------------------------
(* C2 *)

\* the channel is not internal, and is a listed client channel or no client
\* channel is listed
ClientSide(chan) ==
    /\ chan \notin INTERNAL_CHANNEL_IDS
    /\ CLIENT_CHANNEL_IDS = {} \/ chan \in CLIENT_CHANNEL_IDS

\* the job-tagged root messages with no subtype and no bot flag
TaggedRoots ==
    [channel : Channels, text : TaggedTexts, ts : TS, thread_ts : {""},
     subtype : {""}, bot_id : {""}, user : Users]
    \cup {ev \in [channel : Channels, text : TaggedTexts, ts : TS, thread_ts : TS,
                  subtype : {""}, bot_id : {""}, user : Users] :
             ev.thread_ts = ev.ts}

\* the handler in slot h returns from recording the client thread
ClientInfoReturns(h) == slots[h].pc = "write_client" /\ slots'[h] = Idle

\* C2: when a job-tagged root message of a client channel (timestamp ts2) is
\* handled while the pending cache holds (c, ts) for its job, then once the
\* handler has returned a relay lookup by ts2 yields (job, c, ts).
C2_LookupYieldsPending ==
    [][/\ \A h \in 1..MaxInflight, ev \in TaggedRoots :
            (/\ ClientSide(ev.channel)
             /\ JobOf(ev) \in DOMAIN PENDING_INTERNAL
             /\ Handle(h, ev))
                => LET job == JobOf(ev)
                       p == PENDING_INTERNAL[job]
                   IN  IF slots'[h] = Idle
                       THEN ByClientThread(RELAY_MEM', ev.ts) = <<job, p[1], p[2]>>
                       ELSE /\ slots'[h].pc = "write_client"
                            /\ slots'[h].job_num = job
                            /\ slots'[h].internal_channel = p[1]
                            /\ slots'[h].internal_ts = p[2]
                            /\ slots'[h].ts = ev.ts
       /\ \A h \in 1..MaxInflight :
            ClientInfoReturns(h)
                => ByClientThread(RELAY_MEM', slots[h].ts)
                      = <<slots[h].job_num, slots[h].internal_channel,
                          slots[h].internal_ts>>]_vars

----------------------------------------------------------------------------
(* C3 *)

\* the messages with no subtype and no bot flag that carry a thread reference
Threaded ==
    [channel : Channels, text : Texts, ts : TS, thread_ts : TS,
     subtype : {""}, bot_id : {""}, user : Users]

\* ev is handled as a client reply: in a client channel, threaded, and not a
\* job-tagged thread root
IsReply(ev) ==
    /\ ClientSide(ev.channel)
    /\ ~(ev.text \in TaggedTexts /\ ev.thread_ts = ev.ts)

\* the handler in slot h returns from the response write
ResponseReturns(h) == slots[h].pc = "write_resp" /\ slots'[h] = Idle

\* the four response cells of row r
ResponseCells(r) == <<r[ColG], r[ColG + 1], r[ColG + 2], r[ColG + 3]>>

\* the response the handler in slot h is writing
ResponseOf(h) == <<DateNow, TimeNow, slots[h].user_name, Str(slots[h].text)>>

\* the rows this step changes or adds
RowsTouched ==
    {i \in 1..Len(sheet') : i > Len(sheet) \/ sheet'[i] # sheet[i]}

\* the data rows of sh for job that have no response date
UnansweredRows(sh, job) ==
    {i \in 2..Len(sh) : sh[i][ColA] = job /\ sh[i][ColG] = ""}

\* the bottom-most of them, 0 when there is none
LatestUnanswered(sh, job) ==
    IF UnansweredRows(sh, job) = {} THEN 0
    ELSE CHOOSE i \in UnansweredRows(sh, job) :
            \A j \in UnansweredRows(sh, job) : j <= i

\* C3, as stated: a reply in a thread with a relay mapping is written into
\* G-J of the row whose column M holds the thread's root timestamp, and into
\* no other row.
C3_WritesLinkedRow ==
    [][\A h \in 1..MaxInflight :
          ResponseReturns(h)
             => /\ \A i \in RowsTouched :
                      i <= Len(sheet) /\ sheet[i][ColM] = slots[h].thread_ts
                /\ faults' = faults
                      => \E i \in 2..Len(sheet) :
                            /\ sheet[i][ColM] = slots[h].thread_ts
                            /\ ResponseCells(sheet'[i]) = ResponseOf(h)]_vars

\* C3, amended: the reply is written for the job of the thread's relay
\* mapping, into G-J of the bottom-most data row that has this job in A and
\* no response date when the handler reads the sheet, whatever its column M
\* holds; when there is no such row, a row holding the job and the response
\* is appended; no other cell changes, and a failed write changes nothing.
C3_WritesLatestUnansweredOfJob ==
    [][/\ \A h \in 1..MaxInflight, ev \in Threaded :
            (/\ IsReply(ev)
             /\ ByClientThread(RELAY_MEM, ev.thread_ts) # NoMapping
             /\ Handle(h, ev))
                => /\ sheet' = sheet
                   /\ \/ slots'[h] = Idle /\ (faults' < faults \/ sheet = <<>>)
                      \/ /\ slots'[h] # Idle
                         /\ slots'[h].pc = "write_resp"
                         /\ slots'[h].thread_ts = ev.thread_ts
                         /\ slots'[h].job_num
                               = ByClientThread(RELAY_MEM, ev.thread_ts)[1]
                         /\ slots'[h].target
                               = LatestUnanswered(sheet, slots'[h].job_num)
       /\ \A h \in 1..MaxInflight :
            ResponseReturns(h)
                => \/ sheet' = sheet /\ faults' < faults
                   \/ /\ slots[h].target = 0
                      /\ Len(sheet') = Len(sheet) + 1
                      /\ SubSeq(sheet', 1, Len(sheet)) = sheet
                      /\ sheet'[Len(sheet')]
                            = [c \in 1..NCols |->
                                 IF c = ColA THEN slots[h].job_num
                                 ELSE IF c \in ColG..(ColG + 3)
                                      THEN ResponseOf(h)[c - ColG + 1]
                                      ELSE ""]
                   \/ /\ slots[h].target \in 2..Len(sheet)
                      /\ sheet[slots[h].target][ColA] = slots[h].job_num
                      /\ sheet'
                            = [sheet EXCEPT ![slots[h].target] =
                                 [c \in 1..NCols |->
                                    IF c \in ColG..(ColG + 3)
                                    THEN ResponseOf(h)[c - ColG + 1]
                                    ELSE @[c]]]]_vars

\* a reply was written into a question row that a client thread is linked to
C3_Witness ==
    \E i \in 2..Len(sheet) :
        /\ sheet[i][ColL] # ""
        /\ sheet[i][ColM] # ""
        /\ sheet[i][ColG] = DateNow
        /\ sheet[i][ColG + 3] # ""
        /\ posts # <<>>

----------------------------------------------------------------------------
(* C4 *)

\* the names the echo may carry for user_id: the profile's, or the user id
EchoNames(user_id) == {ProfileName(user_id), user_id}

\* this step makes exactly one chat.postMessage call
PostsOne == Len(posts') = Len(posts) + 1 /\ SubSeq(posts', 1, Len(posts)) = posts

\* the response of the handler in slot h is in the sheet after this step
ResponseInPlace(h) ==
    IF slots[h].target = 0
    THEN /\ Len(sheet') = Len(sheet) + 1
         /\ ResponseCells(sheet'[Len(sheet')]) = ResponseOf(h)
    ELSE ResponseCells(sheet'[slots[h].target]) = ResponseOf(h)

\* C4: a reply handled in a thread with relay mapping (job, ic, its) makes one
\* chat.postMessage call to channel ic, threaded under its, whose text
\* carries the reply text, whether the response write before it succeeded,
\* failed or was not made; when only the post fails the response written
\* before it stays in the sheet.
C4_EchoPostedWhateverTheWrite ==
    [][/\ \A h \in 1..MaxInflight, ev \in Threaded :
            (/\ IsReply(ev)
             /\ ByClientThread(RELAY_MEM, ev.thread_ts) # NoMapping
             /\ Handle(h, ev))
                => LET m == ByClientThread(RELAY_MEM, ev.thread_ts) IN
                   IF slots'[h] = Idle
                   THEN /\ PostsOne
                        /\ posts'[Len(posts')].channel = m[2]
                        /\ posts'[Len(posts')].thread_ts = m[3]
                        /\ \E n \in EchoNames(ev.user) :
                              posts'[Len(posts')].text = EchoText(n, Strip(ev.text))
                   ELSE /\ posts' = posts
                        /\ slots'[h].pc = "write_resp"
                        /\ slots'[h].internal_channel = m[2]
                        /\ slots'[h].internal_ts = m[3]
                        /\ slots'[h].user_name \in EchoNames(ev.user)
                        /\ slots'[h].text = Strip(ev.text)
       /\ \A h \in 1..MaxInflight :
            ResponseReturns(h)
                => /\ PostsOne
                   /\ posts'[Len(posts')].channel = slots[h].internal_channel
                   /\ posts'[Len(posts')].thread_ts = slots[h].internal_ts
                   /\ posts'[Len(posts')].text
                         = EchoText(slots[h].user_name, slots[h].text)
                   /\ (~posts'[Len(posts')].ok /\ faults' = faults - 1)
                         => ResponseInPlace(h)]_vars

\* an echo went out although no response was written into the sheet
C4_Witness ==
    /\ faults < MaxFaults
    /\ \E k \in 1..Len(posts) : posts[k].ok /\ posts[k].channel \in INTERNAL_CHANNEL_IDS
    /\ \A i \in 1..Len(sheet) : sheet[i][ColG] # DateNow
    /\ \A h \in 1..MaxInflight : slots[h] = Idle

----------------------------------------------------------------------------
(* C5 *)

\* C5: G-J of a row are empty when an internal question creates the row, and
\* once the response date of a row is set no later step changes its G-J,
\* replies handled concurrently included.
C5_ResponseWrittenOnce ==
    [][/\ \A i \in (Len(sheet) + 1)..Len(sheet') :
            sheet'[i][ColL] # "" => ResponseCells(sheet'[i]) = <<"", "", "", "">>
       /\ \A i \in 1..Len(sheet) :
            sheet[i][ColG] # ""
                => /\ i <= Len(sheet')
                   /\ ResponseCells(sheet'[i]) = ResponseCells(sheet[i])]_vars

----------------------------------------------------------------------------
(* C6 *)

\* C6: when the response update is invoked for a job that has no row with an
\* empty response date, the log with no rows at all included, and no call
\* fails, a row with the job in A, the response in G-J and nothing else is
\* appended.
C6_ResponseNeverDropped ==
    [][/\ \A h \in 1..MaxInflight, ev \in Threaded :
            (/\ IsReply(ev)
             /\ ByClientThread(RELAY_MEM, ev.thread_ts) # NoMapping
             /\ UnansweredRows(sheet, ByClientThread(RELAY_MEM, ev.thread_ts)[1]) = {}
             /\ faults' = faults
             /\ Handle(h, ev))
                => /\ slots'[h] # Idle
                   /\ slots'[h].pc = "write_resp"
                   /\ slots'[h].target = 0
       /\ \A h \in 1..MaxInflight :
            (ResponseReturns(h) /\ slots[h].target = 0 /\ faults' = faults)
                => /\ Len(sheet') = Len(sheet) + 1
                   /\ SubSeq(sheet', 1, Len(sheet)) = sheet
                   /\ sheet'[Len(sheet')]
                         = [c \in 1..NCols |->
                              IF c = ColA THEN slots[h].job_num
                              ELSE IF c \in ColG..(ColG + 3)
                                   THEN ResponseOf(h)[c - ColG + 1]
                                   ELSE ""]]_vars

----------------------------------------------------------------------------
(* C7 *)

\* C7: the client-thread update writes the client root timestamp into column
\* M and the client channel into column O of the row it found, and leaves
\* every other cell of the sheet, column N in particular, as it was.
C7_WritesMAndO ==
    [][\A h \in 1..MaxInflight :
          (ClientInfoReturns(h) /\ faults' = faults)
             => sheet' = [sheet EXCEPT ![slots[h].target] =
                            [@ EXCEPT ![ColM] = slots[h].ts,
                                      ![ColO] = slots[h].channel]]]_vars

----------------------------------------------------------------------------
(* C8 *)

\* the messages that carry a subtype or a bot flag
Ignored ==
    [channel : Channels, text : Texts, ts : TS, thread_ts : {""} \cup TS,
     subtype : {"message_changed"}, bot_id : {"", "B1"}, user : Users]
    \cup [channel : Channels, text : Texts, ts : TS, thread_ts : {""} \cup TS,
          subtype : {""}, bot_id : {"B1"}, user : Users]

\* C8: handling a message that carries a subtype or a bot flag, whatever its
\* channel and text, leaves the pending cache, the relay cache and the sheet
\* unchanged, posts nothing and leaves no handler at work.
C8_IgnoredEventsChangeNothing ==
    [][\/ UNCHANGED <<PENDING_INTERNAL, RELAY_MEM, sheet, posts, slots>>
       \/ \A h \in 1..MaxInflight, ev \in Ignored : ~Handle(h, ev)]_vars

\* a question is pending and in the sheet, all events have been handled, and
\* nothing else was recorded: the later events were without effect
C8_Witness ==
    /\ budget = 0
    /\ faults = MaxFaults
    /\ DOMAIN PENDING_INTERNAL = {"11111"}
    /\ RELAY_MEM = EmptyRelay
    /\ posts = <<>>
    /\ Len(sheet) = 2
    /\ \A h \in 1..MaxInflight : slots[h] = Idle

----------------------------------------------------------------------------
(* C9 *)

\* the messages with no subtype and no bot flag
Plain ==
    [channel : Channels, text : Texts, ts : TS, thread_ts : {""} \cup TS,
     subtype : {""}, bot_id : {""}, user : Users]

\* C9: in every configuration a channel is internal iff the internal set
\* holds it, client iff it is not internal and the client set is empty or
\* holds it, never both; handling a message of a channel that is neither
\* changes no cache and no sheet row, posts nothing and leaves no handler at
\* work.
C9_ChannelRoles ==
    /\ [](\A chan \in Channels :
             /\ IsInternal(chan) <=> chan \in INTERNAL_CHANNEL_IDS
             /\ IsClientChannel(chan) <=> ClientSide(chan)
             /\ ~(IsInternal(chan) /\ IsClientChannel(chan)))
    /\ [][\/ UNCHANGED <<PENDING_INTERNAL, RELAY_MEM, sheet, posts, slots>>
          \/ \A h \in 1..MaxInflight, ev \in Plain :
                (ev.channel \notin INTERNAL_CHANNEL_IDS /\ ~ClientSide(ev.channel))
                   => ~Handle(h, ev)]_vars

\* with a client set listed, some channel is neither internal nor client,
\* and all events were handled while a question is pending
C9_Witness ==
    /\ CLIENT_CHANNEL_IDS # {}
    /\ \E chan \in Channels :
          ~IsInternal(chan) /\ ~IsClientChannel(chan)
    /\ budget = 0
    /\ \A h \in 1..MaxInflight : slots[h] = Idle
    /\ PENDING_INTERNAL # <<>>
    /\ RELAY_MEM = EmptyRelay

----------------------------------------------------------------------------
(* C10 *)

\* the positions of s where '#', five digits and '?' follow one another
TagPositions(s) ==
    {i \in 1..(Len(s) - 6) :
        /\ s[i] = "#"
        /\ \A d \in 1..5 : s[i + d] \in Digits
        /\ s[i + 6] = "?"}

\* the leftmost of them
FirstTagPosition(s) ==
    CHOOSE i \in TagPositions(s) : \A j \in TagPositions(s) : i <= j

\* '#' + four digits + '?', '#' + six digits + '?', '#' + five digits +
\* space + '?'
Untagged ==
    { <<"#", "1", "1", "1", "1", "?">>,
      <<"#", "1", "1", "1", "1", "1", "1", "?">>,
      <<"#", "1", "1", "1", "1", "1", " ", "?">> }

\* C10: a text is job-tagged iff '#', exactly five digits and '?' follow one
\* another somewhere in it, and the job number is the five digits of the
\* leftmost such place; four digits, six digits, or a space before the '?'
\* give no match.
C10_JobTag ==
    tagResult.done
        => /\ tagResult.job # <<>> <=> TagPositions(tagText) # {}
           /\ TagPositions(tagText) # {}
                 => tagResult.job
                       = SubSeq(tagText, FirstTagPosition(tagText) + 1,
                                FirstTagPosition(tagText) + 5)
           /\ tagText \in Untagged => tagResult.job = <<>>

\* a text with two tags was searched and the job of the left one came out
C10_Witness ==
    /\ tagResult.done
    /\ tagText = <<"#", "1", "1", "1", "1", "1", "?",
                   "#", "2", "2", "2", "2", "1", "?">>
    /\ tagResult.job = <<"1", "1", "1", "1", "1">>

----------------------------------------------------------------------------
(* C11 *)

\* no key was saved twice
DistinctSaves ==
    \A i, j \in 1..Len(saves) : i # j => saves[i].key # saves[j].key

\* no save is older than the TTL
NoSaveExpired == \A i \in 1..Len(saves) : clock - saves[i].at <= 259200

\* the keys of the last n saves
LastSavedKeys(n) == {saves[i].key : i \in (Len(saves) - n + 1)..Len(saves)}

\* C11: after n saves of pairwise distinct client timestamps, none older
\* than the TTL, the relay map holds exactly the min(n, 30) keys saved last;
\* the 31st distinct key evicts the one saved first and no other.
C11_KeepsLastThirty ==
    (DistinctSaves /\ NoSaveExpired)
        => DOMAIN RELAY_MEM.map
              = LastSavedKeys(IF Len(saves) < 30 THEN Len(saves) ELSE 30)

\* 31 distinct keys were saved; the first is gone, the 30 others are held
C11_Witness ==
    /\ Len(saves) = 31
    /\ DistinctSaves
    /\ NoSaveExpired
    /\ saves[1].key \notin DOMAIN RELAY_MEM.map
    /\ Cardinality(DOMAIN RELAY_MEM.map) = 30

----------------------------------------------------------------------------
(* C12 *)

\* the last save of key k
LastSaveOf(k) ==
    saves[CHOOSE i \in 1..Len(saves) :
             saves[i].key = k /\ \A j \in (i + 1)..Len(saves) : saves[j].key # k]

\* C12: once a save has completed at time t, a lookup returns no mapping
\* whose recorded creation time is more than 259,200 seconds before t, and
\* returns every mapping created within the TTL, as long as the queue never
\* grew beyond its capacity.
C12_TtlAfterSave ==
    saves # <<>>
        => LET t == saves[Len(saves)].at IN
           /\ \A k \in DOMAIN RELAY_MEM.map :
                 t - RELAY_MEM.map[k].created_at <= 259200
           /\ Len(saves) <= 30
                 => \A k \in SavedKeys :
                       t - LastSaveOf(k).at <= 259200
                          => ByClientThread(RELAY_MEM, k)
                                = <<"11111", "A", LastSaveOf(k).internal_ts>>

----------------------------------------------------------------------------
(* C13, C14 *)

\* start-up has completed with every call succeeding and no event has been
\* handled yet
JustStarted ==
    /\ phase = "run"
    /\ budget = MaxEvents
    /\ faults = MaxFaults
    /\ \A h \in 1..MaxInflight : slots[h] = Idle

\* the positions in the tab of the last 200 data rows
WindowRows == {n \in 2..Len(sheet) : n > Len(sheet) - 200}

\* the rows of the window that carry a job number, an internal timestamp
\* (L) and an internal channel (N)
LinkedRows ==
    {n \in WindowRows : /\ Cell(sheet[n], ColA) # ""
                        /\ Cell(sheet[n], ColL) # ""
                        /\ Cell(sheet[n], ColN) # ""}

\* C13: when start-up has completed and before the first event is handled,
\* the Pending-Internal entry of every job with a linked row among the last
\* 200 data rows is (N, L) of the last such row, and no other job has an
\* entry.
C13_PendingRebuilt ==
    JustStarted
        => /\ \A n \in LinkedRows :
                 (\A m \in LinkedRows :
                     Cell(sheet[m], ColA) = Cell(sheet[n], ColA) => m <= n)
                    => /\ Cell(sheet[n], ColA) \in DOMAIN PENDING_INTERNAL
                       /\ PENDING_INTERNAL[Cell(sheet[n], ColA)]
                             = <<Cell(sheet[n], ColN), Cell(sheet[n], ColL)>>
           /\ \A job \in DOMAIN PENDING_INTERNAL :
                 \E n \in LinkedRows : Cell(sheet[n], ColA) = job

\* the linked rows that also carry a client root timestamp (M)
RelayRows == {n \in LinkedRows : Cell(sheet[n], ColM) # ""}

\* C14: when start-up has completed, a relay lookup by the client root
\* timestamp (M) of each of the 30 most recent fully linked rows of the
\* window returns (job, N, L) of that row.
C14_RelayRebuilt ==
    JustStarted
        => \A n \in RelayRows :
              Cardinality({m \in RelayRows : m > n}) < 30
                 => ByClientThread(RELAY_MEM, Cell(sheet[n], ColM))
                       = <<Cell(sheet[n], ColA), Cell(sheet[n], ColN),
                           Cell(sheet[n], ColL)>>

----------------------------------------------------------------------------
(* C15 *)

\* the step that handler h takes next is possible whatever has failed before
CanProceed(h) ==
    ENABLED (InternalCacheOf(h) \/ ClientInfoWriteOf(h) \/ ResponseWriteOf(h))

----------------------------------------------------------------------------
(* C16 *)

\* C16: when a job-tagged root message of a client channel is handled while
\* its job is pending and the Question Log has no row of the job with an
\* empty response date, the handler returns with the Question Log as it was:
\* no cell is written and no row is appended.
C16_NoRowNoWrite ==
    [][\/ UNCHANGED <<sheet, slots>>
       \/ \A h \in 1..MaxInflight, ev \in TaggedRoots :
            (/\ ClientSide(ev.channel)
             /\ JobOf(ev) \in DOMAIN PENDING_INTERNAL
             /\ UnansweredRows(sheet, JobOf(ev)) = {}
             /\ Handle(h, ev))
                => /\ sheet' = sheet
                   /\ slots'[h] = Idle]_vars

\* the question of job 11111 has been answered and, with no call failing,
\* the job was then reposted at t1: the relay cache holds t1 while column M
\* of the answered row still names the earlier repost
C16_Witness ==
    /\ \A h \in 1..MaxInflight : slots[h] = Idle
    /\ faults = MaxFaults
    /\ "11111" \in DOMAIN PENDING_INTERNAL
    /\ UnansweredRows(sheet, "11111") = {}
    /\ "t1" \in DOMAIN RELAY_MEM.map
    /\ Len(sheet) = 2
    /\ sheet[2][ColM] = FillerTs(WarmFillers)

----------------------------------------------------------------------------
(* C17 *)

\* C17: handling a job-tagged root message of a client channel whose job has
\* no pending entry saves no relay mapping, writes nothing to the Question
\* Log, posts nothing, and the handler returns at once.
C17_NoPendingNoEffect ==
    [][\/ UNCHANGED <<PENDING_INTERNAL, RELAY_MEM, sheet, posts, slots>>
       \/ \A h \in 1..MaxInflight, ev \in TaggedRoots :
            (/\ ClientSide(ev.channel)
             /\ JobOf(ev) \notin DOMAIN PENDING_INTERNAL)
                => ~Handle(h, ev)]_vars

\* after a cold start three events were handled, no call failed, and only a
\* question of job 22222 left a trace: a repost of job 11111 can have been
\* among them, and one is still without effect
C17_Witness ==
    /\ phase = "run"
    /\ budget = 0
    /\ faults = MaxFaults
    /\ \A h \in 1..MaxInflight : slots[h] = Idle
    /\ DOMAIN PENDING_INTERNAL = {"22222"}
    /\ RELAY_MEM = EmptyRelay
    /\ posts = <<>>
    /\ ENABLED (UNCHANGED <<PENDING_INTERNAL, RELAY_MEM, sheet, posts, slots>>
                /\ \E ev \in TaggedRoots :
                      /\ ClientSide(ev.channel)
                      /\ JobOf(ev) = "11111"
                      /\ Route(1, ev))

----------------------------------------------------------------------------
(* C18 *)

\* C18: no step removes a pending entry; an entry changes only when the
\* handler of a job-tagged internal message returns, and then the entry of
\* that message's job becomes the message's (channel, timestamp) while the
\* other entries stay; a repost leaves the entries as they are, and any
\* mapping it leaves under its timestamp names the pending thread of its job.
C18_PendingSuperseded ==
    [][/\ DOMAIN PENDING_INTERNAL \subseteq DOMAIN PENDING_INTERNAL'
       /\ \A h \in 1..MaxInflight :
            InternalReturns(h)
                => /\ PendingIsOwn(h)
                   /\ \A job \in DOMAIN PENDING_INTERNAL \ {slots[h].job_num} :
                         PENDING_INTERNAL'[job] = PENDING_INTERNAL[job]
       /\ (\A h \in 1..MaxInflight : ~InternalReturns(h))
            => PENDING_INTERNAL' = PENDING_INTERNAL
       /\ \A h \in 1..MaxInflight, ev \in TaggedRoots :
            (/\ budget' # budget
             /\ ClientSide(ev.channel)
             /\ JobOf(ev) \in DOMAIN PENDING_INTERNAL
             /\ ev.ts \in DOMAIN RELAY_MEM'.map
             /\ Handle(h, ev))
                => ByClientThread(RELAY_MEM', ev.ts)
                      = <<JobOf(ev), PENDING_INTERNAL[JobOf(ev)][1],
                          PENDING_INTERNAL[JobOf(ev)][2]>>]_vars

\* a second question of job 11111, asked at t2, has superseded the first,
\* and two reposts after it, at t1 and at t2, are both linked to thread t2
C18_Witness ==
    /\ \A h \in 1..MaxInflight : slots[h] = Idle
    /\ DOMAIN PENDING_INTERNAL = {"11111"}
    /\ PENDING_INTERNAL["11111"] = <<"A", "t2">>
    /\ ByClientThread(RELAY_MEM, "t1") = <<"11111", "A", "t2">>
    /\ ByClientThread(RELAY_MEM, "t2") = <<"11111", "A", "t2">>

----------------------------------------------------------------------------
(* C19 *)

\* C19: with reply handlers for different jobs in flight together, a handler
\* that returns from its response write has touched only rows whose column
\* A is its own job and has left every row of another job as it was; when
\* no call of the step failed its response is in the row it targeted.  So
\* of two replies about different jobs neither is lost nor lands on the
\* other job's row.
C19_RepliesOfTwoJobsIndependent ==
    [][\A h \in 1..MaxInflight :
          ResponseReturns(h)
             => /\ \A i \in RowsTouched : sheet'[i][ColA] = slots[h].job_num
                /\ \A i \in 1..Len(sheet) :
                      sheet[i][ColA] # slots[h].job_num => sheet'[i] = sheet[i]
                /\ faults' = faults => ResponseInPlace(h)]_vars

\* a reply in thread t1 and a reply in thread t2 have been handled, no call
\* failing: the row of job 11111 and the row of job 22222 both carry a
\* response, and both echoes were posted
C19_Witness ==
    /\ \A h \in 1..MaxInflight : slots[h] = Idle
    /\ faults = MaxFaults
    /\ Len(sheet) = 3
    /\ sheet[2][ColA] = "11111" /\ sheet[2][ColG] # ""
    /\ sheet[3][ColA] = "22222" /\ sheet[3][ColG] # ""
    /\ Len(posts) = 2
    /\ {posts[1].thread_ts, posts[2].thread_ts} = {"t1", "t2"}

----------------------------------------------------------------------------
(* C20 *)

\* the cell of the looked-up job's row under the column headed name, "" when
\* no column has that header
UnderHeader(name) ==
    IF \E i \in 1..Len(jobRows[1]) : jobRows[1][i] = name
    THEN LET c == CHOOSE i \in 1..Len(jobRows[1]) : jobRows[1][i] = name
             r == CHOOSE n \in 2..Len(jobRows) :
                     \E i \in 1..Len(jobRows[1]) :
                        jobRows[1][i] = "Job #" /\ jobRows[n][i] = jobResult.job_num
         IN  jobRows[r][c]
    ELSE ""

\* C20: whatever the order of the header columns, the work-item id returned
\* for a job that has a row is the row's cell under "Ewing Board Item ID"
\* when that header is present, otherwise its cell under "Monday ID".
C20_WorkItemIdByHeader ==
    (jobResult.done /\ jobResult.found)
        => jobResult.monday_item_id
              = IF \E i \in 1..Len(jobRows[1]) : jobRows[1][i] = "Ewing Board Item ID"
                THEN UnderHeader("Ewing Board Item ID")
                ELSE UnderHeader("Monday ID")

----------------------------------------------------------------------------
(* C21 *)

\* C21: after any sequence of saves, earlier saves of the same key included,
\* a lookup by the key saved last returns what that save stored; lookups do
\* not change the cache, so this holds until the next save.
C21_ReadYourWrite ==
    saves # <<>>
        => ByClientThread(RELAY_MEM, saves[Len(saves)].key)
              = <<"11111", "A", saves[Len(saves)].internal_ts>>

----------------------------------------------------------------------------
(* C24 *)

\* C24: after every save, whatever keys were saved and however often, the
\* map holds at most 30 entries, the order queue holds at most 30 elements,
\* and every key of the map occurs in the order queue.
C24_CacheBounded ==
    /\ Cardinality(DOMAIN RELAY_MEM.map) <= 30
    /\ Len(RELAY_MEM.order) <= 30
    /\ \A k \in DOMAIN RELAY_MEM.map :
          \E i \in 1..Len(RELAY_MEM.order) : RELAY_MEM.order[i] = k

\* more than 30 saves were made, one key more than once: the queue is full
\* and lists a key twice, so the map holds fewer than 30 entries
C24_Witness ==
    /\ Len(saves) > 30
    /\ ~DistinctSaves
    /\ Len(RELAY_MEM.order) = 30
    /\ \E i, j \in 1..Len(RELAY_MEM.order) :
          i # j /\ RELAY_MEM.order[i] = RELAY_MEM.order[j]
    /\ Cardinality(DOMAIN RELAY_MEM.map) < 30

----------------------------------------------------------------------------
(* C22 *)

\* C22: in every reachable state, when the relay cache maps a client root
\* timestamp c to (job, ic, its), every row of the Question Log with c in
\* column M has job in column A and its in column L.
C22_RelayAgreesWithSheet ==
    \A c \in DOMAIN RELAY_MEM.map :
       \A i \in 2..Len(sheet) :
          sheet[i][ColM] = c
             => /\ sheet[i][ColA] = RELAY_MEM.map[c].job
                /\ sheet[i][ColL] = RELAY_MEM.map[c].internal_ts

----------------------------------------------------------------------------
(* C23 *)

\* C23: in every state after start-up, each pending entry job -> (channel,
\* ts) has a row in the Question Log with job in column A and ts in column
\* L, also when an append to the sheet has failed.
C23_PendingHasRow ==
    phase = "run"
        => \A job \in DOMAIN PENDING_INTERNAL :
              \E i \in 1..Len(sheet) :
                 /\ sheet[i][ColA] = job
                 /\ sheet[i][ColL] = PENDING_INTERNAL[job][2]

====
